---- MODULE Spec2Model ----
(***************************************************************************)
(* HomoIndex.py: locate ./genus/<genus>/Orthogroups.tsv, query one gene or *)
(* a list of genes against the orthogroup table, write one report file per *)
(* gene and a summary table at the end of the run.                         *)
(*                                                                         *)
(* Python strings are modelled as sequences of one-character strings, so   *)
(* that substring search, strip, split and join are computed character by  *)
(* character as the interpreter computes them.                             *)
(***************************************************************************)
EXTENDS Integers, Sequences, FiniteSets, TLC

(* ----------------------------- bounds ---------------------------------- *)
\* most data rows of Orthogroups.tsv
MaxRows == 2
\* most gene tokens in one cell of the table
MaxTokens == 2
\* most lines of the --gene_list file
MaxLines == 2

(* ------------------------- Python str operations ----------------------- *)
\* the value None (argparse default, query_gene's not-found result)
None == <<"None">>

\* characters str.strip() removes: those for which str.isspace() holds.  A
\* character without an escape of its own is written by its code point.
Whitespace ==
    {"\t", "\n", "U+000B", "\f", "\r", "U+001C", "U+001D", "U+001E", "U+001F",
     " ", "U+0085", "U+00A0", "U+1680", "U+2000", "U+2001", "U+2002", "U+2003",
     "U+2004", "U+2005", "U+2006", "U+2007", "U+2008", "U+2009", "U+200A",
     "U+2028", "U+2029", "U+202F", "U+205F", "U+3000"}

\* Python: s in t
IsSubstr(s, t) ==
    \E i \in 0..(Len(t) - Len(s)) : SubSeq(t, i + 1, i + Len(s)) = s

\* Python: s.lstrip()
RECURSIVE LStrip(_)
LStrip(s) ==
    IF s # <<>> /\ Head(s) \in Whitespace THEN LStrip(Tail(s)) ELSE s

\* Python: s.rstrip()
RECURSIVE RStrip(_)
RStrip(s) ==
    IF s # <<>> /\ s[Len(s)] \in Whitespace
    THEN RStrip(SubSeq(s, 1, Len(s) - 1))
    ELSE s

\* Python: s.strip()
Strip(s) == RStrip(LStrip(s))

\* Python: s.startswith(p)
StartsWith(s, p) == Len(p) <= Len(s) /\ SubSeq(s, 1, Len(p)) = p

\* Python: s.split(sep) for a non-empty sep; acc is the field being scanned
RECURSIVE SplitFrom(_, _, _)
SplitFrom(s, sep, acc) ==
    IF s = <<>> THEN <<acc>>
    ELSE IF StartsWith(s, sep)
         THEN <<acc>> \o SplitFrom(SubSeq(s, Len(sep) + 1, Len(s)), sep, <<>>)
         ELSE SplitFrom(Tail(s), sep, Append(acc, Head(s)))

Split(s, sep) == SplitFrom(s, sep, <<>>)

\* Python: sep.join(parts)
RECURSIVE Join(_, _)
Join(parts, sep) ==
    IF parts = <<>> THEN <<>>
    ELSE IF Len(parts) = 1 THEN parts[1]
    ELSE parts[1] \o sep \o Join(Tail(parts), sep)

\* the separators the program uses
CommaSpace == <<",", " ">>
SemiSpace == <<";", " ">>

\* character order used by sorted() on the names of ./genus/
Ord == [c \in {"A", "B", "C"} |-> CASE c = "A" -> 65 [] c = "B" -> 66 [] c = "C" -> 67]

\* Python: s < t on str
RECURSIVE StrLess(_, _)
StrLess(s, t) ==
    IF t = <<>> THEN FALSE
    ELSE IF s = <<>> THEN TRUE
    ELSE IF Head(s) = Head(t) THEN StrLess(Tail(s), Tail(t))
    ELSE Ord[Head(s)] < Ord[Head(t)]

\* Python: sorted(S) for a collection of distinct str
RECURSIVE Sorted(_)
Sorted(S) ==
    IF S = {} THEN <<>>
    ELSE LET m == CHOOSE x \in S : \A y \in S \ {x} : StrLess(x, y)
         IN  <<m>> \o Sorted(S \ {m})

(* --------------------------- input alphabet ---------------------------- *)
\* header row of Orthogroups.tsv: the orthogroup-ID column, then the species
Header == << <<"O", "G">>, <<"S", "p", "A">>, <<"S", "p", "B">> >>

\* gene IDs occurring in the table; the first is a substring of the second
G1 == <<"g", "1">>
G12 == <<"g", "1", "2">>
Tokens == {G1, G12}

\* a gene ID occurring in no cell, and one occurring only as an orthogroup ID
G3 == <<"g", "3">>
O1 == <<"O", "1">>

\* orthogroup ID of the i-th data row
OGId(i) == <<"O", <<"1", "2", "3", "4">>[i]>>

\* cell contents: ", "-joined lists of distinct gene IDs, or empty
TokenLists ==
    {t \in UNION {[1..n -> Tokens] : n \in 0..MaxTokens} :
        \A i, j \in DOMAIN t : i # j => t[i] # t[j]}
Cells == {Join(t, CommaSpace) : t \in TokenLists}

\* the rows a table file can hold: OGId(i), then one cell per species
RowsOfLen(n) ==
    {r \in [1..n -> [1..Len(Header) -> Cells \cup {OGId(i) : i \in 1..n}]] :
        \A i \in 1..n : /\ r[i][1] = OGId(i)
                        /\ \A j \in 2..Len(Header) : r[i][j] \in Cells}
TableFiles ==
    {[header |-> Header, rows |-> r] : r \in UNION {RowsOfLen(n) : n \in 0..MaxRows}}

\* values of --gene: absent, empty, or a gene ID
GeneArgs == {None, <<>>, G1, G12, G3, O1}

\* lines of the --gene_list file, each with its line terminator
Lines ==
    {G1 \o <<"\n">>, G12 \o <<"\n">>, <<" ">> \o G3 \o <<"\f", "\n">>, <<"\f", "\n">>}
ListFiles == UNION {[1..n -> Lines] : n \in 0..MaxLines}

\* names under ./genus/
GenusNames == {<<"A">>, <<"B">>, <<"C">>}

(* ------------------------------ pandas --------------------------------- *)
\* the missing value read_csv produces
NaN == <<"NaN">>

\* the fields read_csv takes for missing values (its default na_values)
NaValues ==
    { <<>>,
      <<"#", "N", "/", "A">>,
      <<"#", "N", "/", "A", " ", "N", "/", "A">>,
      <<"#", "N", "A">>,
      <<"-", "1", ".", "#", "I", "N", "D">>,
      <<"-", "1", ".", "#", "Q", "N", "A", "N">>,
      <<"-", "N", "a", "N">>,
      <<"-", "n", "a", "n">>,
      <<"1", ".", "#", "I", "N", "D">>,
      <<"1", ".", "#", "Q", "N", "A", "N">>,
      <<"<", "N", "A", ">">>,
      <<"N", "/", "A">>,
      <<"N", "A">>,
      <<"N", "U", "L", "L">>,
      <<"N", "a", "N">>,
      <<"N", "o", "n", "e">>,
      <<"n", "/", "a">>,
      <<"n", "a", "n">>,
      <<"n", "u", "l", "l">> }

\* pd.read_csv(database, sep='\t', dtype=str): the fields in NaValues are
\* missing, every other field is kept as the string it is
read_csv(file) ==
    [columns |-> file.header,
     rows |-> [i \in DOMAIN file.rows |->
                 [j \in DOMAIN file.rows[i] |->
                    IF file.rows[i][j] \in NaValues THEN NaN ELSE file.rows[i][j]]]]

\* df.fillna('')
fillna(df) ==
    [columns |-> df.columns,
     rows |-> [i \in DOMAIN df.rows |->
                 [j \in DOMAIN df.rows[i] |->
                    IF df.rows[i][j] = NaN THEN <<>> ELSE df.rows[i][j]]]]

(* ----------------------------- query_gene ------------------------------ *)
\* variant: the scan also reads the orthogroup-ID cell (row instead of row[1:])
RowMatchesAnyCell(row, gene_id) ==
    \E j \in 1..Len(row) : IsSubstr(gene_id, row[j])

\* lambda row: any(gene_id in str(cell) for cell in row[1:])
RowMatches(row, gene_id) ==
    \E j \in 2..Len(row) : IsSubstr(gene_id, row[j])

\* df[mask]
Results(df, gene_id) ==
    SelectSeq(df.rows, LAMBDA row : RowMatches(row, gene_id))

\* variant: the last matching row is taken (results.iloc[-1])
LastResult(results) == results[Len(results)]

\* results.iloc[0]
FirstResult(results) == results[1]

\* the loop over df.columns[1:] from column j on: one entry per species whose
\* stripped cell is non-empty, with the stripped pieces of its ", " split
RECURSIVE SpeciesLoop(_, _, _)
SpeciesLoop(columns, row, j) ==
    IF j > Len(columns) THEN <<>>
    ELSE LET genes == Strip(row[j])
             pieces == Split(genes, CommaSpace)
             gene_list == [k \in DOMAIN pieces |-> Strip(pieces[k])]
         IN  IF genes # <<>>
             THEN <<[species |-> columns[j], gene_list |-> gene_list]>>
                     \o SpeciesLoop(columns, row, j + 1)
             ELSE SpeciesLoop(columns, row, j + 1)

\* variant: the count grows by one per species instead of len(gene_list)
GeneCountPerSpecies(entries) == Len(entries)

\* gene_count += len(gene_list), over the entries of the loop
RECURSIVE GeneCount(_)
GeneCount(entries) ==
    IF entries = <<>> THEN 0
    ELSE Len(Head(entries).gene_list) + GeneCount(Tail(entries))

\* one "<species>: <genes>" line per entry
SpeciesLines(entries) ==
    [k \in DOMAIN entries |->
        [kind |-> "species", species |-> entries[k].species,
         genes |-> Join(entries[k].gene_list, CommaSpace)]]

\* the two lines every report starts with
Totals(df) ==
    << [kind |-> "total_species", n |-> Len(df.columns) - 1],
       [kind |-> "total_orthogroups", n |-> Len(df.rows)] >>

\* the dict query_gene returns for a row
ResultRecord(gene_id, row, entries) ==
    [Gene_ID |-> gene_id,
     Orthogroup_ID |-> row[1],
     Species_Count |-> Len(entries),
     Gene_Count |-> GeneCount(entries),
     Species_List |-> Join([k \in DOMAIN entries |-> entries[k].species], SemiSpace)]

\* query_gene(database, gene_id, outdir): the name and text of the report it
\* writes, the line it prints and the value it returns
query_gene(file, gene_id) ==
    LET df == fillna(read_csv(file))
        output_file == gene_id \o <<".", "t", "x", "t">>
        results == Results(df, gene_id)
    IN  IF results = <<>>
        THEN [output_file |-> output_file,
              text |-> Totals(df) \o <<[kind |-> "not_found", gene |-> gene_id]>>,
              print |-> [kind |-> "info_not_found", gene |-> gene_id],
              found |-> FALSE,
              result |-> None]
        ELSE LET row == FirstResult(results)
                 entries == SpeciesLoop(df.columns, row, 2)
             IN  [output_file |-> output_file,
                  text |-> Totals(df)
                           \o <<[kind |-> "belongs", gene |-> gene_id,
                                 orthogroup |-> row[1]],
                                [kind |-> "homologous"]>>
                           \o SpeciesLines(entries)
                           \o <<[kind |-> "separator"]>>,
                  print |-> [kind |-> "ok_written", file |-> output_file],
                  found |-> TRUE,
                  result |-> ResultRecord(gene_id, row, entries)]

(* ----------------------------- the run --------------------------------- *)
VARIABLES
    args,           \* parsed command line: genus, gene, gene_list
    genus_fs,       \* ./genus/: whether it exists, the kind of each entry,
                    \* and whether <genus>/Orthogroups.tsv exists
    database,       \* content of Orthogroups.tsv
    infile,         \* lines of the --gene_list file
    outdir_exists,  \* whether the output directory exists
    outfiles,       \* files of the output directory: name -> content
    writes,         \* names of the files opened for writing, in order
    summary_data,   \* main's list of result dicts
    lineno,         \* next line of infile the loop reads
    stdout,         \* lines printed so far
    exit_status,    \* -1 while running, then the process's exit status
    pc              \* position in main

vars == <<args, genus_fs, database, infile, outdir_exists, outfiles, writes,
          summary_data, lineno, stdout, exit_status, pc>>

\* name and header of the summary table
SummaryName == <<"s", "u", "m", "m", "a", "r", "y", ".", "t", "s", "v">>
SummaryColumns ==
    <<"Gene_ID", "Orthogroup_ID", "Species_Count", "Gene_Count", "Species_List">>

\* a summary.tsv left in the output directory by an earlier run
StaleSummary ==
    [columns |-> SummaryColumns,
     rows |-> <<[Gene_ID |-> G3, Orthogroup_ID |-> OGId(4), Species_Count |-> 0,
                 Gene_Count |-> 0, Species_List |-> <<>>]>>]

\* Python truth value of a str or None
Truthy(v) == v # None /\ v # <<>>

\* os.path.exists(os.path.join("genus", args.genus))
GenusDirExists ==
    genus_fs.root /\ genus_fs.entries[args.genus] # "none"

\* os.path.exists(os.path.join(genus_dir, "Orthogroups.tsv"))
DatabaseExists ==
    genus_fs.root /\ genus_fs.entries[args.genus] = "dir" /\ genus_fs.has_db

\* os.path.join("genus", args.genus, "Orthogroups.tsv"), by components
DatabasePath == <<"genus", args.genus, "Orthogroups.tsv">>

\* list_available_genus(): the sorted subdirectories of ./genus/
list_available_genus ==
    Sorted({d \in GenusNames : genus_fs.entries[d] = "dir"})

\* the file system and genus a run can start from
GenusConfigs ==
    {c \in [genus : GenusNames, root : BOOLEAN, has_db : BOOLEAN,
            entries : [GenusNames -> {"none", "dir", "file"}]] :
        /\ ~c.root => \A d \in GenusNames : c.entries[d] = "none"
        /\ c.has_db => c.root /\ c.entries[c.genus] = "dir"}

\* the table, query arguments and output directory a run can start from.  The
\* list file is only read when --gene is absent or empty; every query reloads
\* the table and is independent of the others, so the tables of several rows
\* are varied against a single query and the list files against the tables of
\* at most one row.
RunConfigs ==
    {c \in [table : TableFiles, gene : GeneArgs, gene_list : BOOLEAN,
            infile : ListFiles, outdir : BOOLEAN] :
        /\ ~c.gene_list => c.infile = <<>>
        /\ c.gene_list => Len(c.table.rows) <= 1
        /\ c.gene # None => Len(c.infile) <= 1}

\* one plain configuration of each kind
PlainGenus ==
    [genus |-> <<"A">>, root |-> TRUE, has_db |-> TRUE,
     entries |-> [d \in GenusNames |-> IF d = <<"A">> THEN "dir" ELSE "none"]]
PlainRuns ==
    {[table |-> [header |-> Header, rows |-> << <<OGId(1), G1, <<>> >> >>],
      gene |-> G1, gene_list |-> FALSE, infile |-> <<>>, outdir |-> o] :
        o \in BOOLEAN}

\* The locator reads only ./genus/ and the queries read only the table, the
\* arguments and the output directory, so each kind is varied against a plain
\* configuration of the other.  An output directory that exists holds a
\* summary.tsv of an earlier run.
Init ==
    \E g \in GenusConfigs, r \in RunConfigs :
        /\ g = PlainGenus \/ r \in PlainRuns
        /\ args = [genus |-> g.genus, gene |-> r.gene,
                   gene_list |-> IF r.gene_list THEN <<"genes.txt">> ELSE None]
        /\ genus_fs = [root |-> g.root, entries |-> g.entries, has_db |-> g.has_db]
        /\ database = r.table
        /\ infile = r.infile
        /\ outdir_exists = r.outdir
        /\ outfiles = IF r.outdir THEN SummaryName :> StaleSummary ELSE <<>>
        /\ writes = <<>>
        /\ summary_data = <<>>
        /\ lineno = 1
        /\ stdout = <<>>
        /\ exit_status = -1
        /\ pc = "locate"

\* sys.exit(code) after printing msgs
Exit(code, msgs) ==
    /\ stdout' = stdout \o msgs
    /\ exit_status' = code
    /\ pc' = "done"

\* main, lines 91-96: the genus directory does not exist
GenusMissing ==
    /\ pc = "locate"
    /\ ~GenusDirExists
    /\ LET head == <<[kind |-> "error_genus", genus |-> args.genus],
                     [kind |-> "available_header"]>>
       IN  IF ~genus_fs.root
           THEN Exit(1, head \o <<[kind |-> "error_no_genus_root"]>>)
           ELSE Exit(1, head \o [k \in DOMAIN list_available_genus |->
                                   [kind |-> "available",
                                    genus |-> list_available_genus[k]]])
    /\ UNCHANGED <<args, genus_fs, database, infile, outdir_exists, outfiles,
                   writes, summary_data, lineno>>

\* variant: the output directory is created before the table is looked for
DatabaseMissingAfterMakedirs ==
    /\ pc = "locate"
    /\ GenusDirExists
    /\ ~DatabaseExists
    /\ outdir_exists' = TRUE
    /\ Exit(1, <<[kind |-> "error_missing_file", path |-> DatabasePath],
                 [kind |-> "hint_missing_file"]>>)
    /\ UNCHANGED <<args, genus_fs, database, infile, outfiles, writes,
                   summary_data, lineno>>

\* main, lines 99-102: Orthogroups.tsv does not exist
DatabaseMissing ==
    /\ pc = "locate"
    /\ GenusDirExists
    /\ ~DatabaseExists
    /\ Exit(1, <<[kind |-> "error_missing_file", path |-> DatabasePath],
                 [kind |-> "hint_missing_file"]>>)
    /\ UNCHANGED <<args, genus_fs, database, infile, outdir_exists, outfiles,
                   writes, summary_data, lineno>>

\* main, lines 104-105: os.makedirs(args.outdir, exist_ok=True)
MakeOutdir ==
    /\ pc = "locate"
    /\ GenusDirExists
    /\ DatabaseExists
    /\ outdir_exists' = TRUE
    /\ summary_data' = <<>>
    /\ pc' = "dispatch"
    /\ UNCHANGED <<args, genus_fs, database, infile, outfiles, writes, lineno,
                   stdout, exit_status>>

\* variant: the summary table is rewritten after every query with a result
RunQueryFlushing(gene_id) ==
    LET q == query_gene(database, gene_id)
        data == IF q.found THEN Append(summary_data, q.result) ELSE summary_data
    IN  /\ outfiles' = IF q.found
                       THEN (SummaryName :> [columns |-> SummaryColumns, rows |-> data])
                               @@ (q.output_file :> q.text) @@ outfiles
                       ELSE (q.output_file :> q.text) @@ outfiles
        /\ writes' = IF q.found
                     THEN writes \o <<q.output_file, SummaryName>>
                     ELSE Append(writes, q.output_file)
        /\ stdout' = Append(stdout, q.print)
        /\ summary_data' = data

\* result = query_gene(...); if result: summary_data.append(result)
RunQuery(gene_id) ==
    LET q == query_gene(database, gene_id)
    IN  /\ outfiles' = (q.output_file :> q.text) @@ outfiles
        /\ writes' = Append(writes, q.output_file)
        /\ stdout' = Append(stdout, q.print)
        /\ summary_data' = IF q.found THEN Append(summary_data, q.result)
                           ELSE summary_data

\* main, lines 108-111: --gene is given
QuerySingle ==
    /\ pc = "dispatch"
    /\ Truthy(args.gene)
    /\ RunQuery(args.gene)
    /\ pc' = "summary"
    /\ UNCHANGED <<args, genus_fs, database, infile, outdir_exists, lineno,
                   exit_status>>

\* main, lines 112-113: --gene_list is given and --gene is not
OpenGeneList ==
    /\ pc = "dispatch"
    /\ ~Truthy(args.gene)
    /\ Truthy(args.gene_list)
    /\ lineno' = 1
    /\ pc' = "loop"
    /\ UNCHANGED <<args, genus_fs, database, infile, outdir_exists, outfiles,
                   writes, summary_data, stdout, exit_status>>

\* main, lines 114-119: one line of the list
ReadLine ==
    /\ pc = "loop"
    /\ lineno <= Len(infile)
    /\ LET gene_id == Strip(infile[lineno])
       IN  IF gene_id # <<>>
           THEN RunQuery(gene_id)
           ELSE UNCHANGED <<outfiles, writes, stdout, summary_data>>
    /\ lineno' = lineno + 1
    /\ UNCHANGED <<args, genus_fs, database, infile, outdir_exists, exit_status,
                   pc>>

\* main, line 114: the list is exhausted
CloseGeneList ==
    /\ pc = "loop"
    /\ lineno > Len(infile)
    /\ pc' = "summary"
    /\ UNCHANGED <<args, genus_fs, database, infile, outdir_exists, outfiles,
                   writes, summary_data, lineno, stdout, exit_status>>

\* main, lines 120-122: neither --gene nor --gene_list
NoQuery ==
    /\ pc = "dispatch"
    /\ ~Truthy(args.gene)
    /\ ~Truthy(args.gene_list)
    /\ Exit(1, <<[kind |-> "error_no_query"]>>)
    /\ UNCHANGED <<args, genus_fs, database, infile, outdir_exists, outfiles,
                   writes, summary_data, lineno>>

\* variant: the rows are written newest first
to_csv_reversed(data) ==
    [columns |-> SummaryColumns,
     rows |-> [k \in DOMAIN data |-> data[Len(data) + 1 - k]]]

\* pd.DataFrame(summary_data).to_csv(summary_file, sep='\t', index=False)
to_csv(data) == [columns |-> SummaryColumns, rows |-> data]

\* main, lines 125-129: write summary.tsv when there is a result
WriteSummary ==
    /\ pc = "summary"
    /\ summary_data # <<>>
    /\ outfiles' = (SummaryName :> to_csv(summary_data)) @@ outfiles
    /\ writes' = Append(writes, SummaryName)
    /\ Exit(0, <<[kind |-> "ok_summary", file |-> SummaryName]>>)
    /\ UNCHANGED <<args, genus_fs, database, infile, outdir_exists,
                   summary_data, lineno>>

\* variant: a run without any result ends with sys.exit(1)
NoSummaryExitOne ==
    /\ pc = "summary"
    /\ summary_data = <<>>
    /\ Exit(1, <<>>)
    /\ UNCHANGED <<args, genus_fs, database, infile, outdir_exists, outfiles,
                   writes, summary_data, lineno>>

\* main, line 125: no result, main returns
NoSummary ==
    /\ pc = "summary"
    /\ summary_data = <<>>
    /\ Exit(0, <<>>)
    /\ UNCHANGED <<args, genus_fs, database, infile, outdir_exists, outfiles,
                   writes, summary_data, lineno>>

Next ==
    \/ GenusMissing
    \/ DatabaseMissing
    \/ MakeOutdir
    \/ QuerySingle
    \/ OpenGeneList
    \/ ReadLine
    \/ CloseGeneList
    \/ NoQuery
    \/ WriteSummary
    \/ NoSummary

Spec == Init /\ [][Next]_vars

(* ------------------- vocabulary of the properties ---------------------- *)
\* the per-gene reports opened so far, in order
Reports == SelectSeq(writes, LAMBDA w : w # SummaryName)

\* the gene ID a report is named after
GeneOf(w) == SubSeq(w, 1, Len(w) - 4)

\* the gene IDs queried so far, in order
Queried == [k \in DOMAIN Reports |-> GeneOf(Reports[k])]

\* the gene IDs the command line asks for: the stripped non-blank lines of the
\* list, or the single --gene
Requested ==
    IF args.gene # None /\ args.gene # <<>> THEN <<args.gene>>
    ELSE SelectSeq([k \in DOMAIN infile |-> Strip(infile[k])],
                   LAMBDA g : g # <<>>)

\* the rows of the table file and its species columns
TableRows == database.rows
SpeciesCols == 2..Len(database.header)

\* the elements of a cell's ", "-separated list
CellTokens(cell) == IF cell = <<>> THEN <<>> ELSE Split(cell, CommaSpace)

\* rows holding g as an exact token of a species cell
TokenRows(g) ==
    {i \in DOMAIN TableRows :
        \E j \in SpeciesCols :
            \E k \in DOMAIN CellTokens(TableRows[i][j]) :
                CellTokens(TableRows[i][j])[k] = g}

\* rows holding g as a substring of a species cell
SubstrRows(g) ==
    {i \in DOMAIN TableRows :
        \E j \in SpeciesCols : IsSubstr(g, TableRows[i][j])}

\* g is a substring of no cell at all, orthogroup-ID column included
InNoCell(g) ==
    \A i \in DOMAIN TableRows :
        \A j \in DOMAIN TableRows[i] : ~IsSubstr(g, TableRows[i][j])

\* the least element of a non-empty set of row numbers
MinRow(S) == CHOOSE i \in S : \A k \in S : i <= k

\* the species columns of row i with a non-empty cell, in column order
FilledCols(i) ==
    SelectSeq([k \in 1..(Len(database.header) - 1) |-> k + 1],
              LAMBDA j : TableRows[i][j] # <<>>)

\* total number of tokens over the cells of row i in the columns cols
RECURSIVE TokenTotal(_, _)
TokenTotal(i, cols) ==
    IF cols = <<>> THEN 0
    ELSE Len(CellTokens(TableRows[i][Head(cols)])) + TokenTotal(i, Tail(cols))

\* the lines of a report of the given kind
LinesOf(text, kind) == SelectSeq(text, LAMBDA l : l.kind = kind)

\* what a report says: the orthogroups it names and, per species line, the
\* species and the tokens listed for it
SaidOrthogroups(text) ==
    {LinesOf(text, "belongs")[k].orthogroup : k \in DOMAIN LinesOf(text, "belongs")}
SaidSpecies(text) ==
    [k \in DOMAIN LinesOf(text, "species") |->
        <<LinesOf(text, "species")[k].species,
          Split(LinesOf(text, "species")[k].genes, CommaSpace)>>]

\* what a report on row i should say
RowSpecies(i) ==
    [k \in DOMAIN FilledCols(i) |->
        <<database.header[FilledCols(i)[k]], CellTokens(TableRows[i][FilledCols(i)[k]])>>]

\* the report of a gene that was not found
NotFoundText(g) ==
    << [kind |-> "total_species", n |-> Len(database.header) - 1],
       [kind |-> "total_orthogroups", n |-> Len(TableRows)],
       [kind |-> "not_found", gene |-> g] >>

\* the Gene_ID column of a list of summary rows
GeneIds(rows) == [k \in DOMAIN rows |-> rows[k].Gene_ID]
Range(f) == {f[k] : k \in DOMAIN f}

\* the summary row expected for gene g matched on row i
RowRecord(g, i) ==
    [Gene_ID |-> g,
     Orthogroup_ID |-> TableRows[i][1],
     Species_Count |-> Len(FilledCols(i)),
     Gene_Count |-> TokenTotal(i, FilledCols(i)),
     Species_List |-> Join([k \in DOMAIN FilledCols(i) |->
                              database.header[FilledCols(i)[k]]], SemiSpace)]

\* ./genus/ holds a directory named after the genus; it also holds the table
DirThere == genus_fs.root /\ genus_fs.entries[args.genus] = "dir"
TableThere == DirThere /\ genus_fs.has_db

\* the queries run so far that match some row, in order
FoundQueries == SelectSeq(Queried, LAMBDA g : SubstrRows(g) # {})

\* the summary rows expected for the queries run so far
ExpectedRows ==
    [k \in DOMAIN FoundQueries |->
        RowRecord(FoundQueries[k], MinRow(SubstrRows(FoundQueries[k])))]

\* the run is in list mode
ListMode == ~(args.gene # None /\ args.gene # <<>>) /\ args.gene_list # None

\* the content of summary.tsv, if the file exists
SummaryState(files) ==
    IF SummaryName \in DOMAIN files THEN <<files[SummaryName]>> ELSE <<>>

\* the kinds of the lines printed so far
Printed == {stdout[k].kind : k \in DOMAIN stdout}

(* ------------------------------ claims --------------------------------- *)

\* C1: a queried gene ID that is an exact cell token in exactly one row gets a
\* report that names that row's orthogroup ID and lists exactly the species
\* whose cell in that row is non-empty, each with that cell's tokens.
C1_ExactTokenReport ==
    \A k \in DOMAIN Reports :
        LET g == Queried[k]
            text == outfiles[Reports[k]]
        IN  Cardinality(TokenRows(g)) = 1 =>
                LET i == MinRow(TokenRows(g))
                IN  /\ SaidOrthogroups(text) = {TableRows[i][1]}
                    /\ Range(SaidSpecies(text)) = Range(RowSpecies(i))

\* C2: at the end of a run the summary table holds one data row per query
\* that produced a result, in processing order; a list of N distinct gene IDs
\* that are all found leaves N per-gene files and N summary rows whose Gene_ID
\* column is the input list in order.
C2_SummaryRowsInOrder ==
    pc = "done" /\ exit_status = 0 =>
        /\ FoundQueries # <<>> =>
               /\ SummaryName \in DOMAIN outfiles
               /\ GeneIds(outfiles[SummaryName].rows) = FoundQueries
        /\ ( /\ ListMode
             /\ Requested # <<>>
             /\ \A a, b \in DOMAIN Requested : a # b => Requested[a] # Requested[b]
             /\ \A a \in DOMAIN Requested : SubstrRows(Requested[a]) # {} ) =>
               /\ SummaryName \in DOMAIN outfiles
               /\ Len(outfiles[SummaryName].rows) = Len(Requested)
               /\ GeneIds(outfiles[SummaryName].rows) = Requested
               /\ Cardinality(DOMAIN outfiles \ {SummaryName}) = Len(Requested)
               /\ \A a \in DOMAIN Requested :
                      Requested[a] \o <<".", "t", "x", "t">> \in DOMAIN outfiles

W2_TwoFoundInOrder ==
    /\ pc = "done" /\ exit_status = 0 /\ ListMode
    /\ Requested = <<G12, G1>>
    /\ SummaryName \in Range(writes)
    /\ GeneIds(outfiles[SummaryName].rows) = <<G12, G1>>
    /\ Cardinality(DOMAIN outfiles \ {SummaryName}) = 2

\* C3: a gene ID contained in no cell gets a report of the two totals and a
\* not-found line only, adds no summary row, does not stop the run (every
\* requested gene is still queried) and the run exits with status 0, also
\* when no queried gene matched at all.
C3_NotFoundReport ==
    /\ \A k \in DOMAIN Reports :
          InNoCell(Queried[k]) =>
              /\ outfiles[Reports[k]] = NotFoundText(Queried[k])
              /\ Queried[k] \notin Range(GeneIds(summary_data))
              /\ SummaryName \in Range(writes) =>
                     Queried[k] \notin Range(GeneIds(outfiles[SummaryName].rows))
    /\ (pc = "done" /\ \E k \in DOMAIN Queried : InNoCell(Queried[k])) =>
          /\ exit_status = 0
          /\ Queried = Requested
    /\ ( /\ pc = "done" /\ TableThere /\ Requested # <<>>
         /\ \A a \in DOMAIN Requested : SubstrRows(Requested[a]) = {} ) =>
          /\ exit_status = 0
          /\ Queried = Requested
          /\ SummaryName \notin Range(writes)

W3_MissThenHit ==
    /\ pc = "done" /\ exit_status = 0
    /\ Queried = <<G3, G1>>
    /\ InNoCell(G3)
    /\ outfiles[G3 \o <<".", "t", "x", "t">>] = NotFoundText(G3)
    /\ GeneIds(summary_data) = <<G1>>

\* C4: with the genus directory and table in place, an invocation giving
\* neither or both of --gene and --gene_list runs no query and exits with a
\* diagnostic and a non-zero status.
C4_ExactlyOneOption ==
    ( /\ pc = "done" /\ TableThere
      /\ (args.gene = None) = (args.gene_list = None) ) =>
        /\ Reports = <<>>
        /\ exit_status > 0
        /\ "error_no_query" \in Printed

\* C5: when ./genus/ holds no directory named after the genus, the program
\* exits non-zero and prints every subdirectory of ./genus/ as a suggestion
\* (or, when ./genus/ itself is absent, the fatal diagnostic).
C5_MissingGenusListed ==
    (pc = "done" /\ ~DirThere) =>
        /\ exit_status > 0
        /\ IF genus_fs.root
           THEN {stdout[k].genus :
                    k \in {n \in DOMAIN stdout : stdout[n].kind = "available"}}
                = {d \in GenusNames : genus_fs.entries[d] = "dir"}
           ELSE "error_no_genus_root" \in Printed

\* C6: a genus directory without Orthogroups.tsv ends the run with a non-zero
\* status and a message naming genus/<genus>/Orthogroups.tsv; whenever the
\* locator fails, no step creates the output directory, writes a file or runs
\* a query.
C6_LocatorFailureNoEffect ==
    /\ [](pc = "done" /\ DirThere /\ ~genus_fs.has_db =>
            /\ exit_status > 0
            /\ \E k \in DOMAIN stdout :
                  /\ stdout[k].kind = "error_missing_file"
                  /\ stdout[k].path = <<"genus", args.genus, "Orthogroups.tsv">>)
    /\ [](pc = "done" /\ ~TableThere => exit_status > 0 /\ writes = <<>>)
    /\ [][~TableThere =>
            UNCHANGED <<outdir_exists, outfiles, writes, summary_data>>]_vars

W6_TableMissing ==
    /\ pc = "done" /\ DirThere /\ ~genus_fs.has_db
    /\ exit_status = 1
    /\ ~outdir_exists
    /\ "error_missing_file" \in Printed

\* C7: a queried gene is reported found (an orthogroup line in its report and
\* a result record) exactly when some row has a cell outside the first column
\* containing the gene ID as a substring; a gene ID occurring only in the
\* orthogroup-ID column is reported not found.
C7_FoundIffSubstring ==
    \A k \in DOMAIN Reports :
        LET g == Queried[k]
            text == outfiles[Reports[k]]
        IN  /\ (LinesOf(text, "belongs") # <<>>) <=> (SubstrRows(g) # {})
            /\ (LinesOf(text, "not_found") = <<>>) <=> (SubstrRows(g) # {})
            /\ (g \in Range(GeneIds(summary_data))) <=> (SubstrRows(g) # {})

W7_OnlyInIdColumn ==
    /\ Queried = <<O1>>
    /\ \E i \in DOMAIN TableRows : TableRows[i][1] = O1 /\ TableRows[i][2] # <<>>
    /\ LinesOf(outfiles[O1 \o <<".", "t", "x", "t">>], "not_found") # <<>>
    /\ summary_data = <<>>

\* C8: in every summary row, Species_Count is the number of species columns
\* with a non-empty cell in the matched row, Gene_Count the total number of
\* ", "-separated tokens in those cells, and Species_List those species names
\* in column order joined by "; ".
C8_SummaryCounts ==
    \A rows \in {summary_data} \cup
                {outfiles[w].rows : w \in Range(writes) \cap {SummaryName}} :
        \A k \in DOMAIN rows :
            \E i \in DOMAIN TableRows :
                /\ TableRows[i][1] = rows[k].Orthogroup_ID
                /\ rows[k].Species_Count = Len(FilledCols(i))
                /\ rows[k].Gene_Count = TokenTotal(i, FilledCols(i))
                /\ rows[k].Species_List =
                       Join([n \in DOMAIN FilledCols(i) |->
                               database.header[FilledCols(i)[n]]], SemiSpace)

W8_TwoSpeciesThreeGenes ==
    /\ pc = "done"
    /\ SummaryName \in Range(writes)
    /\ \E k \in DOMAIN outfiles[SummaryName].rows :
          /\ outfiles[SummaryName].rows[k].Species_Count = 2
          /\ outfiles[SummaryName].rows[k].Gene_Count = 3

\* C9: when several rows match a gene ID, the report and the summary row are
\* those of the first matching row in table order alone.
C9_FirstMatchingRow ==
    \A k \in DOMAIN Reports :
        LET g == Queried[k]
            text == outfiles[Reports[k]]
        IN  Cardinality(SubstrRows(g)) >= 2 =>
                LET i == MinRow(SubstrRows(g))
                IN  /\ SaidOrthogroups(text) = {TableRows[i][1]}
                    /\ SaidSpecies(text) = RowSpecies(i)
                    /\ \E n \in DOMAIN summary_data :
                          summary_data[n] = RowRecord(g, i)
                    /\ \A n \in DOMAIN summary_data :
                          summary_data[n].Gene_ID = g =>
                              summary_data[n] = RowRecord(g, i)

W9_TwoRowsMatch ==
    /\ pc = "done"
    /\ Queried = <<G1>>
    /\ SubstrRows(G1) = {1, 2}
    /\ RowRecord(G1, 1) # [RowRecord(G1, 2) EXCEPT !.Orthogroup_ID = OGId(1)]
    /\ SummaryName \in Range(writes)
    /\ outfiles[SummaryName].rows = <<RowRecord(G1, 1)>>

\* C10: summary.tsv is opened at most once per run, as the last write, after
\* every requested query has run, and then holds the whole table; no other
\* step changes it, and a run where no query produced a result never does.
C10_SummaryWrittenOnceAtEnd ==
    /\ [](\A k \in DOMAIN writes :
            writes[k] = SummaryName =>
                /\ k = Len(writes)
                /\ pc = "done"
                /\ Queried = Requested
                /\ outfiles[SummaryName] =
                       [columns |-> SummaryColumns, rows |-> ExpectedRows])
    /\ [](pc = "done" /\ FoundQueries = <<>> => SummaryName \notin Range(writes))
    /\ [][(\/ SummaryState(outfiles') # SummaryState(outfiles)
            \/ (writes' # writes /\ writes'[Len(writes')] = SummaryName)) =>
            /\ pc = "summary" /\ pc' = "done"
            /\ SummaryName \notin Range(writes)
            /\ Queried = Requested
            /\ FoundQueries # <<>>]_vars

W10_SummaryAfterReports ==
    /\ pc = "done"
    /\ Len(writes) = 3
    /\ writes[3] = SummaryName
    /\ writes[1] # SummaryName /\ writes[2] # SummaryName
    /\ Len(outfiles[SummaryName].rows) = 1

====
